---- MODULE Spec2Model ----
(***************************************************************************)
(* Model of the crossword CSP engine, lec3_crossword/generate.py           *)
(* (class CrosswordCreator).  A client holds one CrosswordCreator and      *)
(* calls its methods; ac3 and solve are modelled step by step, the other   *)
(* methods as one step each.  Python exceptions are outcomes: a call ends  *)
(* either with a return value or with the name of the exception raised.    *)
(***************************************************************************)
EXTENDS FiniteSets, Integers, Sequences, TLC

\* ------------------------------------------------------------------------
\* Bounds
\* ------------------------------------------------------------------------
\* largest vocabulary (number of words in the words file)
MaxVocab == 2

\* ------------------------------------------------------------------------
\* Words: tuples of letters.  Python indexes from 0.
\* ------------------------------------------------------------------------
CAT == <<"C", "A", "T">>
ACT == <<"A", "C", "T">>
DOG == <<"D", "O", "G">>
AT  == <<"A", "T">>
TO  == <<"T", "O">>

WordUniverse == {CAT, ACT, DOG, AT, TO}

\* xval[i] of the code, i counted from 0
Char(w, i) == w[i + 1]

\* the set of all orders in which Python may iterate over the set S
Perms(S) ==
    {f \in [1..Cardinality(S) -> S] : \A e \in S : \E k \in 1..Cardinality(S) : f[k] = e}

\* ------------------------------------------------------------------------
\* Puzzle model (crossword.py: Variable, Crossword)
\* ------------------------------------------------------------------------
ACROSS == "across"
DOWN   == "down"

Variable(i, j, direction, length) ==
    [i |-> i, j |-> j, direction |-> direction, length |-> length]

\* the cells a slot covers, in order
Cells(v) ==
    [k \in 1..v.length |->
        <<v.i + (IF v.direction = DOWN THEN k - 1 ELSE 0),
          v.j + (IF v.direction = ACROSS THEN k - 1 ELSE 0)>>]

CellSet(v) == {Cells(v)[k] : k \in 1..v.length}

\* index (from 0) of cell c in the slot's cells
CellIndex(v, c) == (CHOOSE k \in 1..v.length : Cells(v)[k] = c) - 1

None == "None"

\* the None entry of crossword.overlaps, kept apart from every pair (i, j)
NoOverlap == <<>>

\* crossword.overlaps[x, y]: None, or the pair (i, j) of indices
overlaps(x, y) ==
    IF CellSet(x) \cap CellSet(y) = {}
    THEN NoOverlap
    ELSE LET c == CHOOSE c \in CellSet(x) \cap CellSet(y) : TRUE
         IN  <<CellIndex(x, c), CellIndex(y, c)>>

\* the grids: one slot; two crossing slots; one slot crossed by two others
SlotA  == Variable(0, 0, ACROSS, 3)
SlotB  == Variable(0, 1, DOWN, 3)
SlotC  == Variable(0, 0, DOWN, 2)
SlotD  == Variable(0, 2, DOWN, 2)

Grids == { {SlotA}, {SlotA, SlotB}, {SlotA, SlotC, SlotD} }

VARIABLES
    crossword,   \* the puzzle: [variables, words]
    domains,     \* self.domains
    pc,          \* position of the running call ("idle": none)
    caller,      \* who called ac3: "client" or "solve"
    arcs,        \* the worklist of ac3
    op,          \* the method the client called last
    argArc,      \* its (x, y) argument, if any
    assignment,  \* its assignment argument, as the dict's list of items
    pre,         \* self.domains when the client's call began
    result,      \* how the client's call ended
    ac3ret,      \* what ac3 returned within the client's last call (None: nothing)
    selected,    \* the slot select_unassigned_variable returned ({}: none)
    board,       \* tictactoe.py: the board
    move,        \* tictactoe.py: the action minimax returned (<<>>: None)
    corpus,      \* pagerank.py: the corpus crawl returned
    page,        \* pagerank.py: the page passed to transition_model
    distribution \* pagerank.py: the dict transition_model returned

\* the variables of the other two programs
others == <<board, move, corpus, page, distribution>>

vars == <<crossword, domains, pc, caller, arcs, op, argArc, assignment, pre, result, ac3ret,
          selected, others>>

\* the value of a variable of a program that is not running
Unused == <<>>

\* tictactoe.py and pagerank.py are not running
OthersUnused ==
    /\ board = Unused
    /\ move = Unused
    /\ corpus = Unused
    /\ page = Unused
    /\ distribution = Unused

\* crossword.neighbors(var)
neighbors(var) ==
    {v \in crossword.variables : v # var /\ overlaps(v, var) # NoOverlap}

\* ------------------------------------------------------------------------
\* CrosswordCreator.__init__
\* ------------------------------------------------------------------------
Construct ==
    /\ \E g \in Grids, ws \in SUBSET WordUniverse :
          /\ Cardinality(ws) <= MaxVocab
          /\ crossword = [variables |-> g, words |-> ws]
          /\ domains = [var \in g |-> ws]
          /\ pre = [var \in g |-> ws]
    /\ pc = "idle"
    /\ caller = "client"
    /\ arcs = <<>>
    /\ op = "init"
    /\ argArc = <<>>
    /\ result = None
    /\ ac3ret = None
    /\ selected = {}
    /\ OthersUnused

\* a new CrosswordCreator; solve starts backtrack from the empty dict
Init ==
    /\ Construct
    /\ assignment = <<>>

\* Python's str(bool) of a flag of the code
Bool(b) == IF b THEN "True" ELSE "False"

\* `e in seq` for a Python list
InList(e, seq) == \E k \in 1..Len(seq) : seq[k] = e

\* Python's `a or b` on tuples: a when a is non-empty, else b
Or(a, b) == IF a # <<>> THEN a ELSE b

\* ------------------------------------------------------------------------
\* enforce_node_consistency (lines 98-107)
\* A call's outcome is [domains, exc]: the domains it leaves and the
\* exception it raises (None when it returns).
\* ------------------------------------------------------------------------

\* the value loop were the domain rebuilt from the vocabulary,
\* `self.domains[var] = {w for w in self.crossword.words if len(w) == var.length}`
NodeValueLoopFromWords(dom, length, ord, k) ==
    [dom |-> {w \in crossword.words : Len(w) = length}, exc |-> None]

\* `for value in self.domains[var]: if len(value) != var.length: remove`
\* run over the iteration order ord of the set; the set iterator raises
\* RuntimeError at its next step once the set has changed size.
RECURSIVE NodeValueLoop(_, _, _, _)
NodeValueLoop(dom, length, ord, k) ==
    IF Cardinality(dom) # Len(ord)
    THEN [dom |-> dom, exc |-> "RuntimeError"]
    ELSE IF k > Len(ord)
    THEN [dom |-> dom, exc |-> None]
    ELSE IF Len(ord[k]) # length
    THEN NodeValueLoop(dom \ {ord[k]}, length, ord, k + 1)
    ELSE NodeValueLoop(dom, length, ord, k + 1)

\* `for var in self.crossword.variables`, from position k of the order ordV
RECURSIVE NodeVarLoop(_, _, _)
NodeVarLoop(doms, ordV, k) ==
    IF k > Len(ordV)
    THEN {[domains |-> doms, exc |-> None]}
    ELSE LET var  == ordV[k]
             outs == {NodeValueLoop(doms[var], var.length, ord, 1) :
                         ord \in Perms(doms[var])}
         IN  UNION { IF o.exc # None
                     THEN {[domains |-> [doms EXCEPT ![var] = o.dom], exc |-> o.exc]}
                     ELSE NodeVarLoop([doms EXCEPT ![var] = o.dom], ordV, k + 1)
                   : o \in outs }

enforce_node_consistency(doms) ==
    UNION {NodeVarLoop(doms, ordV, 1) : ordV \in Perms(crossword.variables)}

\* ------------------------------------------------------------------------
\* revise (lines 110-133)
\* Outcome [domains, ret]: ret is "True", "False" or the exception raised.
\* ------------------------------------------------------------------------

\* `for yval in self.domains[y]`: "sat" (break), "unsat" (loop ran out) or
\* "IndexError" (xval[i] or yval[j] beyond the end of the word)
RECURSIVE ReviseYLoop(_, _, _, _, _)
ReviseYLoop(xval, i, j, ordY, k) ==
    IF k > Len(ordY)
    THEN "unsat"
    ELSE IF i >= Len(xval) \/ j >= Len(ordY[k])
    THEN "IndexError"
    ELSE IF Char(xval, i) = Char(ordY[k], j)
    THEN "sat"
    ELSE ReviseYLoop(xval, i, j, ordY, k + 1)

\* `for xval in self.domains[x]` over the iteration order ordX
RECURSIVE ReviseXLoop(_, _, _, _, _, _, _, _)
ReviseXLoop(doms, x, i, j, ordX, ordY, k, revised) ==
    IF Cardinality(doms[x]) # Len(ordX)
    THEN [domains |-> doms, ret |-> "RuntimeError"]
    ELSE IF k > Len(ordX)
    THEN [domains |-> doms, ret |-> Bool(revised)]
    ELSE LET satisfied == ReviseYLoop(ordX[k], i, j, ordY, 1)
         IN  IF satisfied = "IndexError"
             THEN [domains |-> doms, ret |-> "IndexError"]
             ELSE IF satisfied = "unsat"
             THEN ReviseXLoop([doms EXCEPT ![x] = @ \ {ordX[k]}],
                              x, i, j, ordX, ordY, k + 1, TRUE)
             ELSE ReviseXLoop(doms, x, i, j, ordX, ordY, k + 1, revised)

revise(doms, x, y) ==
    LET overlap == overlaps(x, y)
    IN  IF overlap = NoOverlap
        THEN {[domains |-> doms, ret |-> "False"]}
        ELSE {ReviseXLoop(doms, x, overlap[1], overlap[2], ordX, ordY, 1, FALSE) :
                 ordX \in Perms(doms[x]), ordY \in Perms(doms[y])}

\* ------------------------------------------------------------------------
\* ac3 (lines 136-162)
\* ------------------------------------------------------------------------

\* the neighbour loop were `or` to test both directions: an arc is skipped
\* when its reverse is already in the list
RECURSIVE Ac3NeighborLoopEitherWay(_, _, _, _)
Ac3NeighborLoopEitherWay(as, var, ordN, m) ==
    IF m > Len(ordN)
    THEN as
    ELSE IF InList(<<ordN[m], var>>, as) \/ InList(<<var, ordN[m]>>, as)
    THEN Ac3NeighborLoopEitherWay(as, var, ordN, m + 1)
    ELSE Ac3NeighborLoopEitherWay(Append(as, <<ordN[m], var>>), var, ordN, m + 1)

\* `for neigbor_var in neighbors` of the arcs=None branch (lines 149-153)
RECURSIVE Ac3NeighborLoop(_, _, _, _)
Ac3NeighborLoop(as, var, ordN, m) ==
    IF m > Len(ordN)
    THEN as
    ELSE IF InList(Or(<<ordN[m], var>>, <<var, ordN[m]>>), as)
    THEN Ac3NeighborLoop(as, var, ordN, m + 1)
    ELSE Ac3NeighborLoop(Append(as, <<ordN[m], var>>), var, ordN, m + 1)

\* `for var in self.crossword.variables` (line 147), from position k
RECURSIVE Ac3VarLoop(_, _, _)
Ac3VarLoop(as, ordV, k) ==
    IF k > Len(ordV)
    THEN {as}
    ELSE UNION { Ac3VarLoop(Ac3NeighborLoop(as, ordV[k], ordN, 1), ordV, k + 1)
               : ordN \in Perms(neighbors(ordV[k])) }

\* the worklists ac3 may start from when arcs is None
InitialArcs ==
    UNION {Ac3VarLoop(<<>>, ordV, 1) : ordV \in Perms(crossword.variables)}

\* `for z in self.crossword.neighbors(x): if z != y: arcs.append((z, x))`
RECURSIVE Ac3Requeue(_, _, _, _, _)
Ac3Requeue(as, x, y, ordZ, m) ==
    IF m > Len(ordZ)
    THEN as
    ELSE IF ordZ[m] # y
    THEN Ac3Requeue(Append(as, <<ordZ[m], x>>), x, y, ordZ, m + 1)
    ELSE Ac3Requeue(as, x, y, ordZ, m + 1)

\* ------------------------------------------------------------------------
\* backtrack (lines 215-224): a stub
\* ------------------------------------------------------------------------
backtrack(asg) == "NotImplementedError"

\* ------------------------------------------------------------------------
\* Steps
\* ------------------------------------------------------------------------

\* the client calls enforce_node_consistency()
EnforceNodeConsistencyCall ==
    /\ pc = "idle"
    /\ \E o \in enforce_node_consistency(domains) :
          /\ domains' = o.domains
          /\ result' = o.exc
    /\ op' = "enforce_node_consistency"
    /\ pre' = domains
    /\ argArc' = <<>>
    /\ ac3ret' = None
    /\ UNCHANGED <<others, selected, crossword, pc, caller, arcs, assignment>>

\* the client calls revise(x, y)
ReviseCall ==
    /\ pc = "idle"
    /\ \E x \in crossword.variables, y \in crossword.variables :
          /\ x # y
          /\ argArc' = <<x, y>>
          /\ \E o \in revise(domains, x, y) :
                /\ domains' = o.domains
                /\ result' = o.ret
    /\ op' = "revise"
    /\ pre' = domains
    /\ ac3ret' = None
    /\ UNCHANGED <<others, selected, crossword, pc, caller, arcs, assignment>>

\* the client calls ac3(): lines 145-153 build the worklist
Ac3Call ==
    /\ pc = "idle"
    /\ arcs' \in InitialArcs
    /\ pc' = "ac3_loop"
    /\ caller' = "client"
    /\ op' = "ac3"
    /\ pre' = domains
    /\ argArc' = <<>>
    /\ result' = "running"
    /\ ac3ret' = None
    /\ UNCHANGED <<others, selected, crossword, domains, assignment>>

\* ac3 returns value (line 158 or 162): to the client, or to solve, which
\* drops the value (line 94) and goes on to line 95
Ac3Return(value) ==
    /\ arcs' = <<>>
    /\ ac3ret' = value
    /\ IF caller = "client"
       THEN /\ pc' = "idle"
            /\ result' = value
       ELSE /\ pc' = "solve_backtrack"
            /\ result' = result
    /\ caller' = "client"

\* an exception leaves ac3, and solve when solve is the caller
Ac3Raise(exc) ==
    /\ arcs' = <<>>
    /\ ac3ret' = None
    /\ pc' = "idle"
    /\ result' = exc
    /\ caller' = "client"

\* the while loop were an unrevised arc to go back to the end of the list
Ac3StepRequeueUnrevised ==
    /\ pc = "ac3_loop"
    /\ arcs # <<>>
    /\ LET x    == Head(arcs)[1]
           y    == Head(arcs)[2]
           rest == Tail(arcs)
       IN  \E o \in revise(domains, x, y) :
              /\ domains' = o.domains
              /\ IF o.ret = "True"
                 THEN IF o.domains[x] = {}
                      THEN Ac3Return("False")
                      ELSE /\ \E ordZ \in Perms(neighbors(x)) :
                                 arcs' = Ac3Requeue(rest, x, y, ordZ, 1)
                           /\ UNCHANGED <<pc, caller, result, ac3ret>>
                 ELSE IF o.ret = "False"
                 THEN /\ arcs' = Append(rest, <<x, y>>)
                      /\ UNCHANGED <<pc, caller, result, ac3ret>>
                 ELSE Ac3Raise(o.ret)
    /\ UNCHANGED <<others, selected, crossword, op, argArc, assignment, pre>>

\* one turn of the while loop (lines 154-161)
Ac3Step ==
    /\ pc = "ac3_loop"
    /\ arcs # <<>>
    /\ LET x    == Head(arcs)[1]
           y    == Head(arcs)[2]
           rest == Tail(arcs)
       IN  \E o \in revise(domains, x, y) :
              /\ domains' = o.domains
              /\ IF o.ret = "True"
                 THEN IF o.domains[x] = {}
                      THEN Ac3Return("False")
                      ELSE /\ \E ordZ \in Perms(neighbors(x)) :
                                 arcs' = Ac3Requeue(rest, x, y, ordZ, 1)
                           /\ UNCHANGED <<pc, caller, result, ac3ret>>
                 ELSE IF o.ret = "False"
                 THEN /\ arcs' = rest
                      /\ UNCHANGED <<pc, caller, result, ac3ret>>
                 ELSE Ac3Raise(o.ret)
    /\ UNCHANGED <<others, selected, crossword, op, argArc, assignment, pre>>

\* the worklist is empty: line 162
Ac3Done ==
    /\ pc = "ac3_loop"
    /\ arcs = <<>>
    /\ Ac3Return("True")
    /\ UNCHANGED <<others, selected, crossword, domains, op, argArc, assignment, pre>>

\* the client calls solve(): line 93
SolveCall ==
    /\ pc = "idle"
    /\ \E o \in enforce_node_consistency(domains) :
          /\ domains' = o.domains
          /\ IF o.exc # None
             THEN /\ pc' = "idle"
                  /\ result' = o.exc
             ELSE /\ pc' = "solve_ac3"
                  /\ result' = "running"
    /\ op' = "solve"
    /\ pre' = domains
    /\ argArc' = <<>>
    /\ ac3ret' = None
    /\ UNCHANGED <<others, selected, crossword, caller, arcs, assignment>>

\* solve calls ac3(): line 94
SolveAc3 ==
    /\ pc = "solve_ac3"
    /\ arcs' \in InitialArcs
    /\ pc' = "ac3_loop"
    /\ caller' = "solve"
    /\ UNCHANGED <<others, selected, crossword, domains, op, argArc, assignment, pre, result, ac3ret>>

\* solve returns backtrack(dict()): line 95
SolveBacktrack ==
    /\ pc = "solve_backtrack"
    /\ pc' = "idle"
    /\ result' = backtrack(<<>>)
    /\ UNCHANGED <<others, selected, crossword, domains, caller, arcs, op, argArc, assignment, pre, ac3ret>>

\* the client calls backtrack(dict())
BacktrackCall ==
    /\ pc = "idle"
    /\ op' = "backtrack"
    /\ pre' = domains
    /\ argArc' = <<>>
    /\ result' = backtrack(<<>>)
    /\ ac3ret' = None
    /\ UNCHANGED <<others, selected, crossword, domains, pc, caller, arcs, assignment>>

Next ==
    \/ EnforceNodeConsistencyCall
    \/ ReviseCall
    \/ Ac3Call
    \/ Ac3Step
    \/ Ac3Done
    \/ SolveCall
    \/ SolveAc3
    \/ SolveBacktrack
    \/ BacktrackCall

Spec == Init /\ [][Next]_vars

TypeOK ==
    /\ crossword.variables \in Grids
    /\ crossword.words \subseteq WordUniverse
    /\ \A var \in crossword.variables : domains[var] \subseteq crossword.words
    /\ pc \in {"idle", "ac3_loop", "solve_ac3", "solve_backtrack"}
    /\ caller \in {"client", "solve"}

\* ------------------------------------------------------------------------
\* assignment_complete (lines 165-173) and consistent (lines 176-193)
\* An assignment is a Python dict: the list of its items (var, val) in
\* insertion order, no var twice.
\* ------------------------------------------------------------------------

\* Python's None as a value of the dict, kept apart from every word
NoneVal == <<None>>

\* the dicts over the puzzle's slots with values in vals
Dicts(vals) ==
    UNION { { [k \in 1..Cardinality(S) |-> <<ord[k], f[ord[k]]>>] :
                 f \in [S -> vals], ord \in Perms(S) }
          : S \in SUBSET crossword.variables }

\* assignment.keys()
Keys(asg) == {asg[k][1] : k \in 1..Len(asg)}

\* assignment[var]
Lookup(asg, var) == asg[CHOOSE k \in 1..Len(asg) : asg[k][1] = var][2]

\* `for val in assignment.values(): if val is None: return False`
RECURSIVE assignment_complete_loop(_, _)
assignment_complete_loop(asg, k) ==
    IF k > Len(asg)
    THEN "True"
    ELSE IF asg[k][2] = NoneVal
    THEN "False"
    ELSE assignment_complete_loop(asg, k + 1)

assignment_complete(asg) == assignment_complete_loop(asg, 1)

\* `for neighbor_var in neighbors` (lines 188-192): "False" (return False),
\* "IndexError", or "next" (the loop ran out)
RECURSIVE ConsistentNeighborLoop(_, _, _, _, _)
ConsistentNeighborLoop(asg, var, val, ordN, m) ==
    IF m > Len(ordN)
    THEN "next"
    ELSE IF ordN[m] \in Keys(asg)
    THEN LET ij == overlaps(var, ordN[m])
             nv == Lookup(asg, ordN[m])
         IN  IF ij[1] >= Len(val) \/ ij[2] >= Len(nv)
             THEN "IndexError"
             ELSE IF Char(val, ij[1]) # Char(nv, ij[2])
             THEN "False"
             ELSE ConsistentNeighborLoop(asg, var, val, ordN, m + 1)
    ELSE ConsistentNeighborLoop(asg, var, val, ordN, m + 1)

\* `for var, val in assignment.items()` from item k; line 193 subscripts
\* the method values.append, which raises TypeError; a loop that runs out
\* falls off the end of the function, which returns None; len(None) raises
\* TypeError too
RECURSIVE ConsistentItemLoop(_, _, _)
ConsistentItemLoop(asg, k, values) ==
    IF k > Len(asg)
    THEN {None}
    ELSE LET var == asg[k][1]
             val == asg[k][2]
         IN  IF InList(val, values)
             THEN {"False"}
             ELSE IF val = NoneVal
             THEN {"TypeError"}
             ELSE IF Len(val) # var.length
             THEN {"False"}
             ELSE UNION { LET n == ConsistentNeighborLoop(asg, var, val, ordN, 1)
                          IN  IF n = "next" THEN {"TypeError"} ELSE {n}
                        : ordN \in Perms(neighbors(var)) }

consistent(asg) == ConsistentItemLoop(asg, 1, <<>>)

\* the client calls assignment_complete(assignment)
AssignmentCompleteCall ==
    /\ pc = "idle"
    /\ result' = assignment_complete(assignment)
    /\ op' = "assignment_complete"
    /\ UNCHANGED <<others, selected, crossword, domains, pc, caller, arcs, argArc, assignment, pre, ac3ret>>

\* the client calls consistent(assignment)
ConsistentCall ==
    /\ pc = "idle"
    /\ result' \in consistent(assignment)
    /\ op' = "consistent"
    /\ UNCHANGED <<others, selected, crossword, domains, pc, caller, arcs, argArc, assignment, pre, ac3ret>>

\* select_unassigned_variable (lines 205-213): a stub
select_unassigned_variable(asg) == "NotImplementedError"

\* the client calls select_unassigned_variable(assignment)
SelectUnassignedVariableCall ==
    /\ pc = "idle"
    /\ result' = select_unassigned_variable(assignment)
    /\ selected' = {}
    /\ op' = "select_unassigned_variable"
    /\ UNCHANGED <<others, crossword, domains, pc, caller, arcs, argArc, assignment, pre, ac3ret>>

\* a new CrosswordCreator and a dict the client passes to the predicates
InitPredicates ==
    /\ Construct
    /\ assignment \in Dicts(crossword.words \cup {NoneVal})

NextPredicates ==
    \/ AssignmentCompleteCall
    \/ ConsistentCall
    \/ SelectUnassignedVariableCall

SpecPredicates == InitPredicates /\ [][NextPredicates]_vars

\* ------------------------------------------------------------------------
\* Properties
\* ------------------------------------------------------------------------

\* word v of y supports word w of x at the overlap ij = (i, j): w[i] == v[j]
Supports(w, v, ij) ==
    /\ ij[1] < Len(w)
    /\ ij[2] < Len(v)
    /\ Char(w, ij[1]) = Char(v, ij[2])

\* the client's call of method m has ended (returned or raised)
Ended(m) == pc = "idle" /\ op = m

\* ac3 has just returned True, to the client or to solve
Ac3ReturnedTrue ==
    /\ ac3ret = "True"
    /\ Ended("ac3") \/ pc = "solve_backtrack"

\* the complete consistent assignments of the puzzle
Solutions ==
    {f \in [crossword.variables -> crossword.words] :
        /\ \A x, y \in crossword.variables : x # y => f[x] # f[y]
        /\ \A x \in crossword.variables : Len(f[x]) = x.length
        /\ \A x, y \in crossword.variables :
              (x # y /\ overlaps(x, y) # NoOverlap)
                  => Supports(f[x], f[y], overlaps(x, y))}

\* some domain that was not empty when solve began is empty now
DomainEmptied ==
    \E var \in crossword.variables : pre[var] # {} /\ domains[var] = {}

\* C1: once enforce_node_consistency has ended, the domain of every slot is
\* exactly the words it had before whose length is the slot's length.
C1_NodeConsistent ==
    Ended("enforce_node_consistency") =>
        \A var \in crossword.variables :
            domains[var] = {w \in pre[var] : Len(w) = var.length}

\* C2: once revise(x, y) has ended, domain(x) is exactly its previous words
\* that some word of domain(y) supports at the overlap, no other domain has
\* changed, and it returned True iff a word was removed; without an overlap
\* nothing is removed and it returned False.
C2_Revise ==
    Ended("revise") =>
        LET x  == argArc[1]
            y  == argArc[2]
            ij == overlaps(x, y)
        IN  IF ij = NoOverlap
            THEN domains = pre /\ result = "False"
            ELSE /\ domains[x] = {w \in pre[x] : \E v \in pre[y] : Supports(w, v, ij)}
                 /\ \A z \in crossword.variables \ {x} : domains[z] = pre[z]
                 /\ result = (IF domains[x] # pre[x] THEN "True" ELSE "False")

\* C3: when ac3, called with arcs=None, has returned True, every word of
\* every slot's domain is supported by a word of each crossing slot's domain.
C3_ArcConsistent ==
    Ac3ReturnedTrue =>
        \A x, y \in crossword.variables :
            (x # y /\ overlaps(x, y) # NoOverlap) =>
                \A w \in domains[x] : \E v \in domains[y] : Supports(w, v, overlaps(x, y))

\* ac3 returned True on a puzzle with crossing slots whose domains hold words
C3_Witness ==
    /\ Ac3ReturnedTrue
    /\ \E x, y \in crossword.variables :
          x # y /\ overlaps(x, y) # NoOverlap /\ domains[x] # {} /\ domains[y] # {}

\* C4: when ac3 has returned True, no slot's domain is empty.
C4_NoEmptyDomain ==
    Ac3ReturnedTrue => \A var \in crossword.variables : domains[var] # {}

\* C5: when a domain became empty during solve, solve has returned None,
\* and solve never reaches the call of backtrack with an emptied domain.
C5_UnsolvableDomain ==
    /\ (Ended("solve") /\ DomainEmptied) => result = None
    /\ (op = "solve" /\ pc = "solve_backtrack") => ~DomainEmptied

\* C9: when solve has ended on a puzzle that has a solution it has returned
\* one, and when it has returned None the puzzle has none.
C9_Completeness ==
    Ended("solve") =>
        /\ Solutions # {} =>
              /\ result = "assignment"
              /\ \E f \in Solutions :
                    /\ Keys(assignment) = crossword.variables
                    /\ \A var \in crossword.variables : Lookup(assignment, var) = f[var]
        /\ result = None => Solutions = {}

\* C10: when solve has ended, it has returned an assignment or None.
C10_TwoOutcomes ==
    Ended("solve") => result \in {"assignment", None}

\* every value of the dict is a word
AllWords(asg) == \A k \in 1..Len(asg) : asg[k][2] # NoneVal

\* C6: assignment_complete returns True iff every slot of the puzzle has an
\* assigned word.
C6_AssignmentComplete ==
    (Ended("assignment_complete") /\ AllWords(assignment)) =>
        (result = "True" <=> Keys(assignment) = crossword.variables)

\* C7: consistent returns True when the assigned words are pairwise
\* distinct, each of its slot's length, and equal at the overlap of every
\* pair of assigned crossing slots; it returns False otherwise.
C7_Consistent ==
    (Ended("consistent") /\ AllWords(assignment)) =>
        LET distinct == \A k, m \in 1..Len(assignment) :
                            k # m => assignment[k][2] # assignment[m][2]
            lengths  == \A k \in 1..Len(assignment) :
                            Len(assignment[k][2]) = assignment[k][1].length
            agree    == \A k, m \in 1..Len(assignment) :
                            (k # m /\ overlaps(assignment[k][1], assignment[m][1]) # NoOverlap)
                                => Supports(assignment[k][2], assignment[m][2],
                                            overlaps(assignment[k][1], assignment[m][1]))
        IN  result = Bool(distinct /\ lengths /\ agree)

\* C11: in every step of any sequence of enforce_node_consistency, revise
\* and ac3 calls each slot's domain is a subset of what it was before the
\* step, and of the vocabulary.
C11_Monotone ==
    [][\A var \in crossword.variables :
          /\ domains'[var] \subseteq domains[var]
          /\ domains'[var] \subseteq crossword.words]_vars

\* a consistency call has ended and some domain has lost a word
C11_Witness ==
    /\ pc = "idle"
    /\ op \in {"enforce_node_consistency", "revise", "ac3"}
    /\ \E var \in crossword.variables :
          domains[var] # crossword.words /\ domains[var] \subseteq crossword.words

\* the slots the dict does not assign
Unassigned(asg) == crossword.variables \ Keys(asg)

\* C12: for an incomplete assignment select_unassigned_variable returns an
\* unassigned slot with the fewest remaining values and, among those, one
\* with the most crossing neighbours.
C12_SelectUnassigned ==
    (Ended("select_unassigned_variable") /\ Unassigned(assignment) # {}) =>
        /\ result = "variable"
        /\ \E v \in Unassigned(assignment) :
              /\ selected = {v}
              /\ \A u \in Unassigned(assignment) :
                    Cardinality(domains[v]) <= Cardinality(domains[u])
              /\ \A u \in Unassigned(assignment) :
                    Cardinality(domains[u]) = Cardinality(domains[v])
                        => Cardinality(neighbors(u)) <= Cardinality(neighbors(v))

\* ========================================================================
\* lec0_tictactoe/tictactoe.py
\* ========================================================================

\* minimax is called on boards with at most this many empty cells
MaxEmpty == 5

X == "X"
O == "O"
EMPTY == None

Cells3 == (0..2) \X (0..2)

initial_state == [i \in 0..2 |-> [j \in 0..2 |-> EMPTY]]

\* player (lines 25-42)
player(b) ==
    LET count == Cardinality({c \in Cells3 : b[c[1]][c[2]] # EMPTY})
    IN  IF count = 0 \/ count % 2 = 0 THEN X ELSE O

\* actions (lines 44-59)
actions(b) == {c \in Cells3 : b[c[1]][c[2]] = EMPTY}

\* result (lines 62-78), for an action of actions(board)
Result(b, action) ==
    IF player(b) = X
    THEN [b EXCEPT ![action[1]][action[2]] = X]
    ELSE [b EXCEPT ![action[1]][action[2]] = O]

\* the diagonal tests of winner (lines 95-100)
WinnerDiagonals(b) ==
    IF b[0][0] = b[1][1] /\ b[0][0] = b[2][2]
    THEN b[0][0]
    ELSE IF b[0][2] = b[1][1] /\ b[0][2] = b[2][0]
    THEN b[0][2]
    ELSE None

\* `for i in range(3)` of winner (lines 89-93), from i
RECURSIVE WinnerLoop(_, _)
WinnerLoop(b, i) ==
    IF i > 2
    THEN WinnerDiagonals(b)
    ELSE IF b[i][0] = b[i][1] /\ b[i][0] = b[i][2]
    THEN b[i][0]
    ELSE IF b[0][i] = b[1][i] /\ b[0][i] = b[2][i]
    THEN b[0][i]
    ELSE WinnerLoop(b, i + 1)

\* winner (lines 81-100)
winner(b) == WinnerLoop(b, 0)

\* terminal (lines 103-115)
terminal(b) ==
    IF winner(b) # None
    THEN TRUE
    ELSE IF Cardinality(actions(b)) = 0
    THEN TRUE
    ELSE FALSE

\* utility (lines 118-128)
utility(b) ==
    LET win == winner(b)
    IN  IF win = None THEN 0 ELSE IF win = X THEN 1 ELSE -1

\* max(...) and min(...) of a non-empty set of integers
Max(S) == CHOOSE m \in S : \A n \in S : n <= m
Min(S) == CHOOSE m \in S : \A n \in S : m <= n

\* the value max_value / min_value return, [0] of lines 149-157 and 161-169:
\* the loops start from -2 / 2 and keep the max / min of the values
RECURSIVE max_value(_), min_value(_)
max_value(b) ==
    IF terminal(b)
    THEN utility(b)
    ELSE Max({-2} \cup {min_value(Result(b, action)) : action \in actions(b)})

min_value(b) ==
    IF terminal(b)
    THEN utility(b)
    ELSE Min({2} \cup {max_value(Result(b, action)) : action \in actions(b)})

\* the actions max_value / min_value may return as [1]: `act` is set anew
\* whenever the running value equals new_value, so it ends as the last
\* action, in the iteration order of the set, whose value is the final one;
\* the order of a set being arbitrary, that is any action with that value
max_actions(b) ==
    LET value == max_value(b)
    IN  {action \in actions(b) : min_value(Result(b, action)) = value}

min_actions(b) ==
    LET value == min_value(b)
    IN  {action \in actions(b) : max_value(Result(b, action)) = value}

\* minimax (lines 131-145): the actions it may return; <<>> stands for None
minimax(b) ==
    IF terminal(b)
    THEN {<<>>}
    ELSE IF player(b) = X
    THEN max_actions(b)
    ELSE min_actions(b)

\* a game: the crossword and pagerank variables are not used
InitTicTacToe ==
    /\ board = initial_state
    /\ move = <<>>
    /\ op = "initial_state"
    /\ result = None
    /\ pc = "idle"
    /\ crossword = Unused
    /\ domains = Unused
    /\ caller = Unused
    /\ arcs = Unused
    /\ argArc = Unused
    /\ assignment = Unused
    /\ pre = Unused
    /\ ac3ret = Unused
    /\ selected = Unused
    /\ corpus = Unused
    /\ page = Unused
    /\ distribution = Unused

\* what a call of tictactoe.py leaves alone
tttUnchanged ==
    UNCHANGED <<crossword, domains, pc, caller, arcs, argArc, assignment, pre, ac3ret,
                selected, corpus, page, distribution>>

\* board = result(board, action): ValueError for a cell that is taken
ResultCall ==
    /\ \E action \in Cells3 :
          IF action \notin actions(board)
          THEN /\ result' = "ValueError"
               /\ board' = board
          ELSE /\ result' = "board"
               /\ board' = Result(board, action)
    /\ op' = "result"
    /\ move' = <<>>
    /\ tttUnchanged

\* winner(board)
WinnerCall ==
    /\ result' = winner(board)
    /\ op' = "winner"
    /\ move' = <<>>
    /\ board' = board
    /\ tttUnchanged

\* terminal(board)
TerminalCall ==
    /\ result' = Bool(terminal(board))
    /\ op' = "terminal"
    /\ move' = <<>>
    /\ board' = board
    /\ tttUnchanged

\* minimax(board)
MinimaxCall ==
    /\ Cardinality(actions(board)) <= MaxEmpty
    /\ move' \in minimax(board)
    /\ result' = (IF move' = <<>> THEN None ELSE "action")
    /\ op' = "minimax"
    /\ board' = board
    /\ tttUnchanged

NextTicTacToe ==
    \/ ResultCall
    \/ WinnerCall
    \/ TerminalCall
    \/ MinimaxCall

SpecTicTacToe == InitTicTacToe /\ [][NextTicTacToe]_vars

\* the eight lines of three cells
Lines3 ==
    {{<<i, 0>>, <<i, 1>>, <<i, 2>>} : i \in 0..2}
        \cup {{<<0, j>>, <<1, j>>, <<2, j>>} : j \in 0..2}
        \cup {{<<0, 0>>, <<1, 1>>, <<2, 2>>}, {<<0, 2>>, <<1, 1>>, <<2, 0>>}}

\* player p has three marks in a row
HasLine(b, p) == \E line \in Lines3 : \A c \in line : b[c[1]][c[2]] = p

\* the winner under the rules of the game
RuleWinner(b) == IF HasLine(b, X) THEN X ELSE IF HasLine(b, O) THEN O ELSE None

\* the number of marks of player p
Marks(b, p) == Cardinality({c \in Cells3 : b[c[1]][c[2]] = p})

\* a board of a game that stopped when the first line was completed
LegalBoard(b) ==
    /\ ~(HasLine(b, X) /\ HasLine(b, O))
    /\ HasLine(b, X) => Marks(b, X) = Marks(b, O) + 1
    /\ HasLine(b, O) => Marks(b, X) = Marks(b, O)

\* the game is over under the rules
RuleTerminal(b) == HasLine(b, X) \/ HasLine(b, O) \/ actions(b) = {}

\* the value of the game under the rules: 1 when X can force a win, -1 when
\* O can, 0 otherwise
RECURSIVE RuleValue(_)
RuleValue(b) ==
    IF HasLine(b, X) THEN 1
    ELSE IF HasLine(b, O) THEN -1
    ELSE IF actions(b) = {} THEN 0
    ELSE IF player(b) = X
    THEN Max({RuleValue(Result(b, action)) : action \in actions(b)})
    ELSE Min({RuleValue(Result(b, action)) : action \in actions(b)})

\* C13: on a board where at most one player has a line, winner returns the
\* player who has three in a row, None when nobody has; and terminal is
\* True on every board where a player has three in a row.
C13_Winner ==
    /\ (Ended("winner") /\ ~(HasLine(board, X) /\ HasLine(board, O)))
          => result = RuleWinner(board)
    /\ (Ended("terminal") /\ (HasLine(board, X) \/ HasLine(board, O)))
          => result = "True"

\* C14: minimax returns None on a terminal board and, on any other board of
\* a game, an empty cell after which the value of the game is the value the
\* player to move can force.
C14_Minimax ==
    (Ended("minimax") /\ LegalBoard(board)) =>
        IF RuleTerminal(board)
        THEN move = <<>>
        ELSE /\ move \in actions(board)
             /\ RuleValue(Result(board, move)) = RuleValue(board)

\* ========================================================================
\* lec2_pagerank/pagerank.py
\* ========================================================================

\* DAMPING = 0.85, as the fraction DampingNum / DampingDen
DampingNum == 85
DampingDen == 100

\* the .html files a directory may hold, and a link that leaves the corpus
PageNames == {"1.html", "2.html", "3.html"}
External  == "https://example.org"

\* Python floats are modelled as exact fractions <<numerator, denominator>>
RECURSIVE Gcd(_, _)
Gcd(a, b) == IF b = 0 THEN a ELSE Gcd(b, a % b)

Rat(n, d) == LET g == Gcd(n, d) IN <<n \div g, d \div g>>

RatAdd(p, q) == Rat(p[1] * q[2] + q[1] * p[2], p[2] * q[2])

\* p / n for an integer n > 0
RatDiv(p, n) == Rat(p[1], p[2] * n)

damping_factor == Rat(DampingNum, DampingDen)

\* 1 - damping_factor
OneMinus(p) == Rat(p[2] - p[1], p[2])

\* crawl (lines 24-48): files maps each .html file of the directory to the
\* set of its href values
crawl(files) ==
    LET pages == [filename \in DOMAIN files |-> files[filename] \ {filename}]
    IN  [filename \in DOMAIN files |->
            {link \in pages[filename] : link \in DOMAIN files}]

\* `outgoing is None` (line 63): the values of the corpus are sets
IsNone(outgoing) == FALSE

\* transition_model (lines 51-75): [ret, distribution], ret is "dict" or the
\* exception raised
transition_model(corp, pg, d) ==
    LET outgoing == corp[pg]
        n        == Cardinality(DOMAIN corp)
    IN  IF IsNone(outgoing)
        THEN [ret |-> "dict",
              distribution |-> [key \in DOMAIN corp |-> Rat(1, n)]]
        ELSE IF Cardinality(outgoing) = 0
        THEN [ret |-> "ZeroDivisionError", distribution |-> <<>>]
        ELSE LET outgoing_p == RatAdd(RatDiv(d, Cardinality(outgoing)),
                                      RatDiv(OneMinus(d), n))
                 other_p    == RatDiv(OneMinus(d), n)
             IN  [ret |-> "dict",
                  distribution |->
                      [key \in DOMAIN corp |->
                          IF key \in outgoing THEN outgoing_p ELSE other_p]]

\* corpus = crawl(directory); the other programs' variables are not used
InitPageRank ==
    /\ \E names \in (SUBSET PageNames) \ {{}} :
          \E files \in [names -> SUBSET (PageNames \cup {External})] :
              corpus = crawl(files)
    /\ page = None
    /\ distribution = <<>>
    /\ op = "crawl"
    /\ result = "dict"
    /\ pc = "idle"
    /\ crossword = Unused
    /\ domains = Unused
    /\ caller = Unused
    /\ arcs = Unused
    /\ argArc = Unused
    /\ assignment = Unused
    /\ pre = Unused
    /\ ac3ret = Unused
    /\ selected = Unused
    /\ board = Unused
    /\ move = Unused

\* transition_model(corpus, page, DAMPING) for a page of the corpus
TransitionModelCall ==
    /\ \E pg \in DOMAIN corpus :
          LET o == transition_model(corpus, pg, damping_factor)
          IN  /\ page' = pg
              /\ result' = o.ret
              /\ distribution' = o.distribution
    /\ op' = "transition_model"
    /\ UNCHANGED <<crossword, domains, pc, caller, arcs, argArc, assignment, pre, ac3ret,
                   selected, board, move, corpus>>

NextPageRank ==
    \/ TransitionModelCall

SpecPageRank == InitPageRank /\ [][NextPageRank]_vars

\* the sum of the values of a dict of fractions
RECURSIVE RatSum(_, _)
RatSum(dist, keys) ==
    IF keys = {}
    THEN Rat(0, 1)
    ELSE LET key == CHOOSE key \in keys : TRUE
         IN  RatAdd(dist[key], RatSum(dist, keys \ {key}))

\* C15: transition_model returns a probability for every page of the
\* corpus, the probabilities sum to 1, and for a page without links every
\* page has probability 1/N.
C15_TransitionModel ==
    Ended("transition_model") =>
        /\ result = "dict"
        /\ DOMAIN distribution = DOMAIN corpus
        /\ RatSum(distribution, DOMAIN corpus) = Rat(1, 1)
        /\ corpus[page] = {} =>
              \A key \in DOMAIN corpus :
                  distribution[key] = Rat(1, Cardinality(DOMAIN corpus))

\* the ordered pairs of crossing slots
CrossingArcs ==
    {a \in crossword.variables \X crossword.variables :
        a[1] # a[2] /\ overlaps(a[1], a[2]) # NoOverlap}

\* how often arc a occurs in the list
Occurrences(a, as) == Cardinality({k \in 1..Len(as) : as[k] = a})

\* C16: the worklist ac3 builds when arcs is None holds every ordered pair
\* of crossing slots exactly once, in both directions, and nothing else.
C16_InitialArcs ==
    [][(pc # "ac3_loop" /\ pc' = "ac3_loop") =>
          /\ \A a \in CrossingArcs : Occurrences(a, arcs') = 1
          /\ \A k \in 1..Len(arcs') : arcs'[k] \in CrossingArcs]_vars

\* ac3 has built the worklist of the grid with two crossings: four arcs
C16_Witness ==
    /\ pc = "ac3_loop"
    /\ Cardinality(CrossingArcs) = 4
    /\ Len(arcs) = 4

\* C17: in a turn of ac3's loop on the arc (x, y): when revise removes a
\* word and domain(x) stays non-empty the loop goes on with every arc (z, x),
\* z a neighbour of x other than y, in the worklist; when revise removes
\* nothing the worklist only loses the popped arc; when domain(x) becomes
\* empty ac3 returns False in that turn.
C17_Requeue ==
    [][(pc = "ac3_loop" /\ arcs # <<>>) =>
          LET x == Head(arcs)[1]
              y == Head(arcs)[2]
          IN  /\ (domains'[x] # domains[x] /\ domains'[x] # {}) =>
                    /\ pc' = "ac3_loop"
                    /\ \A z \in neighbors(x) \ {y} : InList(<<z, x>>, arcs')
              /\ (domains' = domains /\ pc' = "ac3_loop") => arcs' = Tail(arcs)
              /\ (domains'[x] # domains[x] /\ domains'[x] = {}) =>
                    /\ pc' # "ac3_loop"
                    /\ ac3ret' = "False"]_vars

\* ------------------------------------------------------------------------
\* ac3 called with a list of arcs (lines 136-162, arcs is not None)
\* ------------------------------------------------------------------------
MaxArcs == 2

\* the arcs of the puzzle: ordered pairs of distinct slots, crossing or not
Arcs == {a \in crossword.variables \X crossword.variables : a[1] # a[2]}

\* the lists of at most MaxArcs arcs
ArcLists == UNION {[1..n -> Arcs] : n \in 0..MaxArcs}

\* the client calls ac3(arcs): line 145 is false, the list is used as given
Ac3CallArcs ==
    /\ pc = "idle"
    /\ arcs' \in ArcLists
    /\ pc' = "ac3_loop"
    /\ caller' = "client"
    /\ op' = "ac3(arcs)"
    /\ pre' = domains
    /\ argArc' = <<>>
    /\ result' = "running"
    /\ ac3ret' = None
    /\ UNCHANGED <<others, selected, crossword, domains, assignment>>

NextAc3 ==
    \/ Ac3CallArcs
    \/ Ac3Call
    \/ Ac3Step
    \/ Ac3Done

\* ac3 is a sequential while loop: once called, its next turn is taken
SpecAc3 ==
    /\ Init
    /\ [][NextAc3]_vars
    /\ WF_vars(Ac3Step)
    /\ WF_vars(Ac3Done)

====
